---------------------------- MODULE Spec2Model ----------------------------
(***************************************************************************)
(* EloArg (src/eloarg.c, src/eloarg.h): the option registry and the        *)
(* command-line parser.                                                    *)
(*                                                                         *)
(* C strings are tuples of one-character strings ("--port" is              *)
(* <<"-","-","p","o","r","t">>); a null char* is the tuple NULLSTR, which  *)
(* no string equals.  An EloArgOption* is a heap address (a positive       *)
(* number) or NULL.  The parser is modelled statement group by statement   *)
(* group: pc is the position in the host program / in eloArgParse.         *)
(***************************************************************************)
EXTENDS Integers, Sequences, FiniteSets, TLC

VARIABLES
    hashTable,  \* eloarg.hashTable: [live |-> is the pointer non-null, slots |-> key -> EloArgOption*]
    count,      \* eloarg.count
    heap,       \* the allocated EloArgOption blocks: address -> struct
    pc,         \* position: start, setup, loop, short, validate, error, parsed, exited, released
    argv,       \* the caller's argument array as eloArgParse has left it
    input,      \* history: the argument vector as it was passed to eloArgParse
    i,          \* eloArgParse: the element cursor (C index, argv[0] is the program name)
    opt,        \* eloArgParse: offset of `opt` in argv[i] (short-option loop)
    tmpOpt,     \* eloArgParse: the lookup key tmpOpt of the short-option loop
    snap,       \* history: heap as it was when the current element was taken up
    outcome,    \* history: which return / which error() call ended the last operation
    message     \* history: what the message of eloArgAdd's error() call complains of

vars == <<hashTable, count, heap, pc, argv, input, i, opt, tmpOpt, snap, outcome, message>>

---------------------------------------------------------------------------
(* Values *)

NULL == 0
NULLSTR == <<"NULL">>
NUL == "NUL"

ARG_NONE == "ARG_NONE"
ARG_INFO == "ARG_INFO"
ARG_OPTIONAL == "ARG_OPTIONAL"
ARG_REQUIRED == "ARG_REQUIRED"

ELOARG_SHORT_OPTION_LENGTH == 1
ELOARG_LONG_OPTION_LENGTH == 32
ELOARG_DESCRIPTION_LENGTH == 150

\* strlen of a non-null string
strlen(s) == Len(s)

\* s[k] in C: the k-th char (from 0), the terminating NUL at k = strlen(s)
CharAt(s, k) == IF k < Len(s) THEN s[k + 1] ELSE NUL

\* the string s + k
StrFrom(s, k) == SubSeq(s, k + 1, Len(s))

\* strchr(s, '='): the offset of the first '=', or -1 when there is none
EqPos(s) ==
    IF \E k \in 1..Len(s) : s[k] = "="
    THEN (CHOOSE k \in 1..Len(s) : s[k] = "=" /\ \A j \in 1..(k - 1) : s[j] # "=") - 1
    ELSE -1

Repeat(c, n) == [k \in 1..n |-> c]

---------------------------------------------------------------------------
(* The key/value index (hashtable.c, not among the sources: spec section 6) *)

HashHas(t, key) == key # NULLSTR /\ key \in DOMAIN t.slots

HashGet(t, key) == IF key \in DOMAIN t.slots THEN t.slots[key] ELSE NULL

HashSet(t, key, value) ==
    [t EXCEPT !.slots = [k \in DOMAIN t.slots \cup {key} |->
                            IF k = key THEN value ELSE t.slots[k]]]

HashCount(t) == Cardinality(DOMAIN t.slots)

initHashTable == [live |-> TRUE, slots |-> <<>>]

HashFree == [live |-> FALSE, slots |-> <<>>]


---------------------------------------------------------------------------
(* Inputs: the declarations a host may register, the argument vectors *)

MaxOpts == 4    \* registrations per run
MaxArgs == 2    \* elements of an argument vector after the program name

KeyA == <<"a">>
KeyB == <<"b">>
KeyC == <<"c">>
KeyP == <<"p">>
KeyH == <<"h">>
KeyPort == <<"p", "o", "r", "t">>
KeyHelp == <<"h", "e", "l", "p">>
Descr == <<"d">>

Decl(s, l, d, t) == [shortOption |-> s, longOption |-> l, description |-> d, valueType |-> t]

\* Arguments of eloArgAdd.  The first seven are well-formed, the others are
\* the calls eloArgAdd rejects for their own shape.
Decls ==
    << Decl(KeyA, NULLSTR, Descr, ARG_NONE),
       Decl(KeyB, NULLSTR, Descr, ARG_NONE),
       Decl(KeyC, NULLSTR, Descr, ARG_NONE),
       Decl(KeyP, KeyPort, Descr, ARG_REQUIRED),
       Decl(KeyP, KeyPort, Descr, ARG_OPTIONAL),
       Decl(KeyH, KeyHelp, Descr, ARG_INFO),
       Decl(KeyH, KeyHelp, Descr, ARG_NONE),
       Decl(NULLSTR, NULLSTR, Descr, ARG_NONE),
       Decl(KeyA, NULLSTR, NULLSTR, ARG_NONE),
       Decl(<<"x", "y">>, NULLSTR, Descr, ARG_NONE),
       Decl(NULLSTR, Repeat("k", ELOARG_LONG_OPTION_LENGTH + 1), Descr, ARG_NONE),
       Decl(KeyC, NULLSTR, Repeat("d", ELOARG_DESCRIPTION_LENGTH + 1), ARG_NONE) >>

KeyV == <<"v">>

\* Further well-formed arguments of eloArgAdd, for the runs that look at
\* registration and release: one string as both keys, a long key alone, a
\* short key alone, and a long key that is the string of another
\* declaration's short key.
MoreDecls ==
    << Decl(KeyV, KeyV, Descr, ARG_NONE),
       Decl(NULLSTR, KeyPort, Descr, ARG_OPTIONAL),
       Decl(KeyP, NULLSTR, Descr, ARG_OPTIONAL),
       Decl(NULLSTR, KeyA, Descr, ARG_NONE) >>

AllDecls == Decls \o MoreDecls

Prog == <<"t">>
TokEnd == <<"-", "-">>
TokPort == <<"-", "-", "p", "o", "r", "t">>
TokPortEq8 == <<"-", "-", "p", "o", "r", "t", "=", "8", "0">>
TokPortEq == <<"-", "-", "p", "o", "r", "t", "=">>
TokPortEqM8 == <<"-", "-", "p", "o", "r", "t", "=", "-", "8">>
TokP8 == <<"-", "p", "8", "0">>
TokP == <<"-", "p">>
Tok8 == <<"8", "0">>
TokHelp == <<"-", "-", "h", "e", "l", "p">>
TokHelpEq8 == <<"-", "-", "h", "e", "l", "p", "=", "8">>
TokHelpEq == <<"-", "-", "h", "e", "l", "p", "=">>
TokABC == <<"-", "a", "b", "c">>
TokA == <<"-", "a">>
TokAA == <<"-", "a", "a">>
TokAP == <<"-", "a", "p">>
TokAH == <<"-", "a", "h">>
TokH == <<"-", "h">>

Tokens ==
    { TokEnd, TokPort, TokPortEq8, TokPortEq, TokPortEqM8, TokP8, TokP, Tok8,
      TokHelp, TokHelpEq8, TokHelpEq, TokABC, TokA, TokAA, TokAP, TokAH, TokH }

\* argc = 0 (no program name either), or the program name and up to MaxArgs elements
ArgVectors ==
    {<<>>} \cup
    UNION { { <<Prog>> \o s : s \in [1..n -> Tokens] } : n \in 0..MaxArgs }

Tok9 == <<"9">>
TokP9 == <<"-", "p", "9">>
TokLongA == <<"-", "-", "a">>
TokLongPEq9 == <<"-", "-", "p", "=", "9">>
TokBA == <<"-", "b", "a">>

\* the few vectors parsed in the runs that look at registration and release;
\* five give one option two or three values in different spellings, the last
\* three spell a short key in long form and a long key in short form
FewVectors ==
    { <<>>, <<Prog>>, <<Prog, TokA>>, <<Prog, TokPort, Tok8>>, <<Prog, TokP8>>,
      <<Prog, TokHelp>>, <<Prog, TokEnd>>, <<Prog, TokPortEq>>,
      <<Prog, TokPort, Tok8, TokPortEqM8>>,
      <<Prog, TokPortEqM8, TokP, Tok8>>,
      <<Prog, TokP8, TokPort, Tok9>>,
      <<Prog, TokPortEq8, TokP9>>,
      <<Prog, TokP, Tok9, TokP8, TokPortEqM8>>,
      <<Prog, TokLongA>>, <<Prog, TokLongPEq9>>, <<Prog, TokBA>> }

---------------------------------------------------------------------------
(* eloArgAdd *)

\* the block malloc returns: its contents are indeterminate and are never
\* read before the fields are assigned; one representative stands for them
RawBlock ==
    [shortOption |-> <<>>, longOption |-> <<>>, description |-> <<>>,
     valueType |-> ARG_NONE, value |-> NULLSTR, provided |-> FALSE,
     count |-> 0, refCount |-> 0]

\* lines 193-203: the fields of a new option before its keys are stored
NewOption(d) ==
    [shortOption |-> <<>>, longOption |-> <<>>, description |-> d.description,
     valueType |-> d.valueType, value |-> NULLSTR, provided |-> FALSE,
     count |-> 0, refCount |-> 0]

\* lines 206-210 and 212-216: store the option at `addr` under one key
StoreKey(st, addr, key, field) ==
    IF key = NULLSTR THEN st
    ELSE [t |-> HashSet(st.t, key, addr),
          h |-> [st.h EXCEPT ![addr] =
                    [@ EXCEPT ![field] = key, !.refCount = (@ + 1) % 256]]]

\* mutant: the long key gets a block of its own (a copy) instead of
\* sharing the short key's block
eloArgAddStoreCopy(t, h, addr, d) ==
    LET st0 == [t |-> t, h |-> [o \in DOMAIN h \cup {addr} |->
                                   IF o = addr THEN NewOption(d) ELSE h[o]]]
        st1 == StoreKey(st0, addr, d.shortOption, "shortOption")
        copy == addr + Len(AllDecls)
        st2 == [t |-> st1.t, h |-> [o \in DOMAIN st1.h \cup {copy} |->
                                       IF o = copy THEN st1.h[addr] ELSE st1.h[o]]]
    IN  IF d.shortOption = NULLSTR \/ d.longOption = NULLSTR
        THEN StoreKey(st1, addr, d.longOption, "longOption")
        ELSE StoreKey(st2, copy, d.longOption, "longOption")

\* lines 193-216: the successful tail of eloArgAdd on index t and heap h,
\* the new block being at `addr`
eloArgAddStore(t, h, addr, d) ==
    LET st0 == [t |-> t, h |-> [o \in DOMAIN h \cup {addr} |->
                                   IF o = addr THEN NewOption(d) ELSE h[o]]]
        st1 == StoreKey(st0, addr, d.shortOption, "shortOption")
    IN  StoreKey(st1, addr, d.longOption, "longOption")

\* mutant: the two has() tests of lines 176-179 are left out
eloArgAddErrorNoHas(t, d) ==
    IF d.shortOption = NULLSTR /\ d.longOption = NULLSTR THEN "no key"
    ELSE IF d.description = NULLSTR THEN "no description"
    ELSE IF d.shortOption # NULLSTR /\ strlen(d.shortOption) > ELOARG_SHORT_OPTION_LENGTH THEN "short length"
    ELSE IF d.longOption # NULLSTR /\ strlen(d.longOption) > ELOARG_LONG_OPTION_LENGTH THEN "long length"
    ELSE IF strlen(d.description) > ELOARG_DESCRIPTION_LENGTH THEN "description length"
    ELSE "none"

\* mutant: the test of the long option's length (lines 188-189) is left out
eloArgAddErrorNoLongLength(t, d) ==
    IF d.shortOption = NULLSTR /\ d.longOption = NULLSTR THEN "no key"
    ELSE IF d.description = NULLSTR THEN "no description"
    ELSE IF HashHas(t, d.shortOption) THEN "short set"
    ELSE IF HashHas(t, d.longOption) THEN "long set"
    ELSE IF d.shortOption # NULLSTR /\ strlen(d.shortOption) > ELOARG_SHORT_OPTION_LENGTH THEN "short length"
    ELSE IF strlen(d.description) > ELOARG_DESCRIPTION_LENGTH THEN "description length"
    ELSE "none"

\* lines 186-191: the checks eloArgAdd makes after malloc (line 181)
AfterMalloc == {"short length", "long length", "description length"}

\* lines 168-191: the error() call eloArgAdd makes for d, named by what its
\* message complains of, or "none"
eloArgAddError(t, d) ==
    IF d.shortOption = NULLSTR /\ d.longOption = NULLSTR THEN "no key"
    ELSE IF d.description = NULLSTR THEN "no description"
    ELSE IF HashHas(t, d.shortOption) THEN "short set"
    ELSE IF HashHas(t, d.longOption) THEN "long set"
    ELSE IF d.shortOption # NULLSTR /\ strlen(d.shortOption) > ELOARG_SHORT_OPTION_LENGTH THEN "short length"
    ELSE IF d.longOption # NULLSTR /\ strlen(d.longOption) > ELOARG_LONG_OPTION_LENGTH THEN "long length"
    ELSE IF strlen(d.description) > ELOARG_DESCRIPTION_LENGTH THEN "description length"
    ELSE "none"

---------------------------------------------------------------------------
(* freeEloArgOption, eloArgFree *)

\* lines 71-81: refCount is a uint8_t; the block (and its value) is released
\* when the count reaches 0
freeEloArgOption(h, option) ==
    IF option = NULL \/ option \notin DOMAIN h THEN h
    ELSE LET r == (h[option].refCount - 1) % 256 IN
         IF r = 0 THEN [o \in DOMAIN h \ {option} |-> h[o]]
         ELSE [h EXCEPT ![option].refCount = r]

\* lines 376-382: the scan of the occupied slots, each emptied and its option
\* handed to freeEloArgOption
RECURSIVE FreeSlots(_, _, _)
FreeSlots(slots, keys, h) ==
    IF keys = {} THEN h
    ELSE LET k == CHOOSE x \in keys : TRUE
         IN  FreeSlots(slots, keys \ {k}, freeEloArgOption(h, slots[k]))

\* lines 367-385: the heap eloArgFree leaves
eloArgFreeHeap(t, h) ==
    IF ~t.live THEN h
    ELSE IF HashCount(t) > 0 THEN FreeSlots(t.slots, DOMAIN t.slots, h)
    ELSE h

---------------------------------------------------------------------------
(* eloArgHas, eloArgGet, eloArgCount *)

\* mutant: the provided flag is not looked at
eloArgHasRegistered(key) ==
    LET option == HashGet(hashTable, key)
    IN  option # NULL

\* lines 349-353
eloArgHas(key) ==
    LET option == HashGet(hashTable, key)
    IN  option # NULL /\ heap[option].provided

\* lines 355-359
eloArgGet(key) ==
    LET option == HashGet(hashTable, key)
    IN  IF option # NULL /\ heap[option].provided THEN heap[option].value ELSE NULLSTR

\* lines 361-365
eloArgCount(key) ==
    LET option == HashGet(hashTable, key)
    IN  IF option # NULL /\ heap[option].provided THEN heap[option].count ELSE 0

---------------------------------------------------------------------------
(* eloArgParse: the pieces of one loop iteration *)

TakesValue(h, option) == h[option].valueType \in {ARG_OPTIONAL, ARG_REQUIRED}

\* mutant: provided = true without count++
MarkNoCount(h, option) ==
    [h EXCEPT ![option] = [@ EXCEPT !.provided = TRUE]]

\* provided = true; count++
Mark(h, option) ==
    [h EXCEPT ![option] = [@ EXCEPT !.provided = TRUE, !.count = @ + 1]]

\* mutant: a value already held is kept
SetValueOnce(h, option, v) ==
    IF h[option].value # NULLSTR THEN h ELSE [h EXCEPT ![option].value = v]

\* value = strdup(v)
SetValue(h, option, v) == [h EXCEPT ![option].value = v]

\* i + 1 < argc && argv[i + 1][0] != '-'
NextIsValue(av, k) == k + 1 < Len(av) /\ CharAt(av[k + 2], 0) # "-"

\* mutant: "--" is not recognised as the terminator
IsTerminatorNever(a) == FALSE

\* line 232
IsTerminator(a) == a = <<"-", "-">>

\* line 236
IsLong(a) == CharAt(a, 0) = "-" /\ CharAt(a, 1) = "-"

\* line 292 (optionMatched is false exactly when the long branch was not taken)
IsShort(a) == ~IsLong(a) /\ CharAt(a, 0) = "-"

\* line 241: *eqPos = '\0' cuts the element at its first '='
CutAtEq(a) == SubSeq(a, 1, EqPos(a))

\* what a branch leaves: the heap, where control goes, the cursor, the outcome
Go(h, where, k, how) == [heap |-> h, pc |-> where, i |-> k, outcome |-> how]

\* mutant: an unknown name before '=' is skipped like a bare word
LongEqUnknownSkipped(t, h, av, k) ==
    LET a == av[k + 1]
        e == EqPos(a)
        option == HashGet(t, StrFrom(CutAtEq(a), 2))
    IN  IF option = NULL THEN Go(h, "loop", k + 1, "none")
        ELSE IF TakesValue(h, option)
        THEN IF CharAt(a, e + 1) = NUL
             THEN Go(h, "error", k, "MissingValue")
             ELSE Go(SetValue(Mark(h, option), option, StrFrom(a, e + 1)), "loop", k + 1, "none")
        ELSE Go(h, "error", k, "UnexpectedValue")

\* mutant: a NONE or INFO option followed by '=' and nothing is taken as the plain flag
LongEqEmptyAccepted(t, h, av, k) ==
    LET a == av[k + 1]
        e == EqPos(a)
        option == HashGet(t, StrFrom(CutAtEq(a), 2))
    IN  IF option = NULL THEN Go(h, "error", k, "UnknownOption")
        ELSE IF TakesValue(h, option)
        THEN IF CharAt(a, e + 1) = NUL
             THEN Go(h, "error", k, "MissingValue")
             ELSE Go(SetValue(Mark(h, option), option, StrFrom(a, e + 1)), "loop", k + 1, "none")
        ELSE IF CharAt(a, e + 1) = NUL
        THEN Go(Mark(h, option), "loop", k + 1, "none")
        ELSE Go(h, "error", k, "UnexpectedValue")

\* lines 240-262: a long option with '='
LongEq(t, h, av, k) ==
    LET a == av[k + 1]
        e == EqPos(a)
        option == HashGet(t, StrFrom(CutAtEq(a), 2))
    IN  IF option = NULL THEN Go(h, "error", k, "UnknownOption")
        ELSE IF TakesValue(h, option)
        THEN IF CharAt(a, e + 1) = NUL
             THEN Go(h, "error", k, "MissingValue")
             ELSE Go(SetValue(Mark(h, option), option, StrFrom(a, e + 1)), "loop", k + 1, "none")
        ELSE Go(h, "error", k, "UnexpectedValue")

\* mutant: an INFO option does not return, it is handled like a NONE flag
LongPlainInfoContinues(t, h, av, k) ==
    LET a == av[k + 1]
        option == HashGet(t, StrFrom(a, 2))
    IN  IF option = NULL THEN Go(h, "error", k, "UnknownOption")
        ELSE IF TakesValue(h, option)
        THEN IF NextIsValue(av, k)
             THEN Go(SetValue(Mark(h, option), option, av[k + 2]), "loop", k + 2, "none")
             ELSE Go(Mark(h, option), "error", k, "MissingValue")
        ELSE Go(Mark(h, option), "loop", k + 1, "none")

\* mutant: the element taken as the value is not skipped (no i++ at line 283)
LongPlainNoSkip(t, h, av, k) ==
    LET a == av[k + 1]
        option == HashGet(t, StrFrom(a, 2))
    IN  IF option = NULL THEN Go(h, "error", k, "UnknownOption")
        ELSE IF h[option].valueType = ARG_INFO
        THEN Go(Mark(h, option), "parsed", k, "info")
        ELSE IF TakesValue(h, option)
        THEN IF NextIsValue(av, k)
             THEN Go(SetValue(Mark(h, option), option, av[k + 2]), "loop", k + 1, "none")
             ELSE Go(Mark(h, option), "error", k, "MissingValue")
        ELSE Go(Mark(h, option), "loop", k + 1, "none")

\* mutant: the iteration of a flag ends without the i++ of line 228
LongPlainNoAdvance(t, h, av, k) ==
    LET a == av[k + 1]
        option == HashGet(t, StrFrom(a, 2))
    IN  IF option = NULL THEN Go(h, "error", k, "UnknownOption")
        ELSE IF h[option].valueType = ARG_INFO
        THEN Go(Mark(h, option), "parsed", k, "info")
        ELSE IF TakesValue(h, option)
        THEN IF NextIsValue(av, k)
             THEN Go(SetValue(Mark(h, option), option, av[k + 2]), "loop", k + 2, "none")
             ELSE Go(Mark(h, option), "error", k, "MissingValue")
        ELSE Go(Mark(h, option), "loop", k, "none")

\* lines 263-288: a long option without '='
LongPlain(t, h, av, k) ==
    LET a == av[k + 1]
        option == HashGet(t, StrFrom(a, 2))
    IN  IF option = NULL THEN Go(h, "error", k, "UnknownOption")
        ELSE IF h[option].valueType = ARG_INFO
        THEN Go(Mark(h, option), "parsed", k, "info")
        ELSE IF TakesValue(h, option)
        THEN IF NextIsValue(av, k)
             THEN Go(SetValue(Mark(h, option), option, av[k + 2]), "loop", k + 2, "none")
             ELSE Go(Mark(h, option), "error", k, "MissingValue")
        ELSE Go(Mark(h, option), "loop", k + 1, "none")

\* mutant: the attached value starts at the option character itself
AttachedValueFromOpt(a, off) == StrFrom(a, off)

\* line 310: the value attached to a short option, strdup(opt + 1)
AttachedValue(a, off) == StrFrom(a, off + 1)

\* line 297: the key the short-option loop looks up
ShortKey(tmp, a, off) == tmp

\* lines 296-330: one iteration of while(*opt); p is the pointer opt (the
\* element it points into and the offset), tmp is tmpOpt.  Leaving the loop
\* ends the iteration of the outer loop (i++).
ShortStep(t, h, av, k, p, tmp) ==
    LET a == av[p.arg + 1]
        option == HashGet(t, ShortKey(tmp, a, p.off))
    IN  IF CharAt(a, p.off) = NUL THEN Go(h, "loop", k + 1, "none")
        ELSE IF option = NULL THEN Go(h, "error", k, "UnknownOption")
        ELSE IF h[option].valueType = ARG_INFO
        THEN Go(Mark(h, option), "parsed", k, "info")
        ELSE IF TakesValue(h, option)
        THEN IF CharAt(a, p.off + 1) # NUL
             THEN Go(SetValue(Mark(h, option), option, AttachedValue(a, p.off)), "loop", k + 1, "none")
             ELSE IF NextIsValue(av, k)
             THEN Go(SetValue(Mark(h, option), option, av[k + 2]), "short", k + 1, "none")
             ELSE Go(Mark(h, option), "error", k, "MissingValue")
        ELSE Go(Mark(h, option), "short", k, "none")

\* mutant: the final scan also reports OPTIONAL options without a value
MissingRequiredOrOptional(t, h) ==
    { o \in { t.slots[key] : key \in DOMAIN t.slots } :
        h[o].valueType \in {ARG_REQUIRED, ARG_OPTIONAL} /\ h[o].value = NULLSTR }

\* lines 335-346: the options the final scan reports as missing
MissingRequired(t, h) ==
    { o \in { t.slots[key] : key \in DOMAIN t.slots } :
        h[o].valueType = ARG_REQUIRED /\ h[o].value = NULLSTR }

---------------------------------------------------------------------------
(* The operations *)

Init ==
    /\ hashTable = [live |-> FALSE, slots |-> <<>>]
    /\ count = 0
    /\ heap = <<>>
    /\ pc = "start"
    /\ argv = <<>>
    /\ input = <<>>
    /\ i = 0
    /\ opt = [arg |-> 0, off |-> 0]
    /\ tmpOpt = <<>>
    /\ snap = <<>>
    /\ outcome = "none"
    /\ message = "none"

\* lines 387-399
eloArgInit ==
    /\ pc = "start"
    /\ hashTable' = initHashTable
    /\ count' = 0
    /\ pc' = "setup"
    /\ UNCHANGED <<heap, argv, input, i, opt, tmpOpt, snap, outcome, message>>

\* lines 168-219: eloArgAdd with the arguments AllDecls[n]; the block malloc
\* returns is named n.  A failed check calls error().
eloArgAdd(n) ==
    LET d == AllDecls[n]
        e == eloArgAddError(hashTable, d)
        st == eloArgAddStore(hashTable, heap, n, d)
    IN  /\ pc = "setup"
        /\ count < MaxOpts
        /\ IF e = "none"
           THEN /\ hashTable' = st.t
                /\ heap' = st.h
                /\ count' = count + 1
                /\ UNCHANGED <<pc, outcome, message>>
           ELSE /\ heap' = IF e \in AfterMalloc
                           THEN [o \in DOMAIN heap \cup {n} |->
                                    IF o = n THEN RawBlock ELSE heap[o]]
                           ELSE heap
                /\ pc' = "error"
                /\ outcome' = "ConfigurationError"
                /\ message' = e
                /\ UNCHANGED <<hashTable, count>>
        /\ UNCHANGED <<argv, input, i, opt, tmpOpt, snap>>

\* mutant: line 224 without the test of the number of registered options
ParseEnterNoCountTest(av) ==
    /\ pc = "setup"
    /\ argv' = av
    /\ input' = av
    /\ snap' = heap
    /\ IF Len(av) = 0
       THEN /\ pc' = "parsed"
            /\ outcome' = "noop"
            /\ UNCHANGED i
       ELSE /\ pc' = "loop"
            /\ outcome' = "none"
            /\ i' = 1
    /\ UNCHANGED <<hashTable, count, heap, opt, tmpOpt, message>>

\* lines 221-228: the call of eloArgParse and its first test
ParseEnter(av) ==
    /\ pc = "setup"
    /\ argv' = av
    /\ input' = av
    /\ snap' = heap
    /\ IF Len(av) = 0 \/ HashCount(hashTable) = 0
       THEN /\ pc' = "parsed"
            /\ outcome' = "noop"
            /\ UNCHANGED i
       ELSE /\ pc' = "loop"
            /\ outcome' = "none"
            /\ i' = 1
    /\ UNCHANGED <<hashTable, count, heap, opt, tmpOpt, message>>

\* lines 228-294: the loop test and one element up to the start of the
\* short-option loop
ParseLoop ==
    /\ pc = "loop"
    /\ IF ~(i < Len(argv))
       THEN /\ pc' = "validate"
            /\ UNCHANGED <<heap, argv, i, opt, tmpOpt, snap, outcome>>
       ELSE LET a == argv[i + 1] IN
            /\ snap' = heap
            /\ IF IsTerminator(a)
               THEN /\ pc' = "parsed"
                    /\ outcome' = "terminator"
                    /\ UNCHANGED <<heap, argv, i, opt, tmpOpt>>
               ELSE IF IsLong(a)
               THEN LET r == IF EqPos(a) >= 0
                             THEN LongEq(hashTable, heap, argv, i)
                             ELSE LongPlain(hashTable, heap, argv, i)
                    IN  /\ argv' = IF EqPos(a) >= 0
                                   THEN [argv EXCEPT ![i + 1] = CutAtEq(a)]
                                   ELSE argv
                        /\ heap' = r.heap
                        /\ pc' = r.pc
                        /\ i' = r.i
                        /\ outcome' = r.outcome
                        /\ UNCHANGED <<opt, tmpOpt>>
               ELSE IF IsShort(a)
               THEN /\ opt' = [arg |-> i, off |-> 1]
                    /\ tmpOpt' = IF CharAt(a, 1) = NUL THEN <<>> ELSE <<CharAt(a, 1)>>
                    /\ pc' = "short"
                    /\ UNCHANGED <<heap, argv, i, outcome>>
               ELSE /\ i' = i + 1
                    /\ UNCHANGED <<heap, argv, pc, opt, tmpOpt, outcome>>
    /\ UNCHANGED <<hashTable, count, input, message>>

\* lines 296-330: one iteration of the short-option loop
ParseShort ==
    /\ pc = "short"
    /\ LET r == ShortStep(hashTable, heap, argv, i, opt, tmpOpt) IN
        /\ heap' = r.heap
        /\ pc' = r.pc
        /\ i' = r.i
        /\ outcome' = r.outcome
        /\ opt' = IF r.pc = "short" THEN [opt EXCEPT !.off = @ + 1] ELSE opt
    /\ UNCHANGED <<hashTable, count, argv, input, tmpOpt, snap, message>>

\* lines 334-347: the scan for missing required options
ParseValidate ==
    /\ pc = "validate"
    /\ IF MissingRequired(hashTable, heap) # {}
       THEN pc' = "error" /\ outcome' = "MissingRequired"
       ELSE pc' = "parsed" /\ outcome' = "end"
    /\ UNCHANGED <<hashTable, count, heap, argv, input, i, opt, tmpOpt, snap, message>>

\* lines 53-65: error() releases the registry and exits
error ==
    /\ pc = "error"
    /\ heap' = eloArgFreeHeap(hashTable, heap)
    /\ hashTable' = HashFree
    /\ pc' = "exited"
    /\ UNCHANGED <<count, argv, input, i, opt, tmpOpt, snap, outcome, message>>

\* mutant: the test of lines 368-369 is left out, and the call on a
\* registry that is not there does not return
eloArgFreeUnguarded ==
    /\ pc \in {"start", "setup", "parsed", "released"}
    /\ heap' = eloArgFreeHeap(hashTable, heap)
    /\ hashTable' = HashFree
    /\ pc' = IF hashTable.live THEN "released" ELSE "crashed"
    /\ UNCHANGED <<count, argv, input, i, opt, tmpOpt, snap, outcome, message>>

\* lines 367-385: eloArgFree called by the host
eloArgFree ==
    /\ pc \in {"start", "setup", "parsed", "released"}
    /\ heap' = eloArgFreeHeap(hashTable, heap)
    /\ hashTable' = HashFree
    /\ pc' = IF pc = "start" THEN "start" ELSE "released"
    /\ UNCHANGED <<count, argv, input, i, opt, tmpOpt, snap, outcome, message>>

\* the host registers one of the declarations
HostAdd == pc = "setup" /\ \E n \in DOMAIN Decls : eloArgAdd(n)

\* the host calls eloArgParse (once, as examples/test.c does)
HostParse == pc = "setup" /\ \E av \in ArgVectors : ParseEnter(av)

Next ==
    \/ eloArgInit
    \/ HostAdd
    \/ HostParse
    \/ ParseLoop
    \/ ParseShort
    \/ ParseValidate
    \/ error
    \/ eloArgFree

Spec == Init /\ [][Next]_vars

\* the declarations and the tokens of the runs that look at how a parse ends:
\* a flag, an option with a value (REQUIRED or OPTIONAL), h/help as INFO or
\* as a flag;
\* one token for each branch of the loop body
RunDecls == { n \in DOMAIN Decls : Decls[n] \in
                { Decl(KeyA, NULLSTR, Descr, ARG_NONE),
                  Decl(KeyP, KeyPort, Descr, ARG_REQUIRED),
                  Decl(KeyP, KeyPort, Descr, ARG_OPTIONAL),
                  Decl(KeyH, KeyHelp, Descr, ARG_INFO),
                  Decl(KeyH, KeyHelp, Descr, ARG_NONE) } }

RunTokens == {TokEnd, TokPort, TokPortEq8, TokP, TokP8, Tok8, TokABC, TokHelp, TokAH}

RunVectors ==
    {<<>>} \cup
    UNION { { <<Prog>> \o s : s \in [1..n -> RunTokens] } : n \in 0..MaxArgs }

HostAddRun == pc = "setup" /\ \E n \in RunDecls : eloArgAdd(n)

HostParseRun == pc = "setup" /\ \E av \in RunVectors : ParseEnter(av)

NextRun ==
    \/ eloArgInit
    \/ HostAddRun
    \/ HostParseRun
    \/ ParseLoop
    \/ ParseShort
    \/ ParseValidate
    \/ error
    \/ eloArgFree

\* eloArgParse, once called, runs to its return or to error(), and error()
\* runs to exit: one thread, no waiting
SpecRun ==
    /\ Init /\ [][NextRun]_vars
    /\ WF_vars(ParseLoop) /\ WF_vars(ParseShort) /\ WF_vars(ParseValidate)
    /\ WF_vars(error)

\* the host registers any of the declarations
HostAddAny == pc = "setup" /\ \E n \in DOMAIN AllDecls : eloArgAdd(n)

\* the host calls eloArgParse on one of the few vectors
HostParseFew == pc = "setup" /\ \E av \in FewVectors : ParseEnter(av)

NextRegistry ==
    \/ eloArgInit
    \/ HostAddAny
    \/ HostParseFew
    \/ ParseLoop
    \/ ParseShort
    \/ ParseValidate
    \/ error
    \/ eloArgFree

\* the same program over every declaration and few argument vectors
SpecRegistry == Init /\ [][NextRegistry]_vars

---------------------------------------------------------------------------
(* Vocabulary of the properties.  These read the state and the argument    *)
(* vector as passed (input); none of them uses the parser's own            *)
(* definitions above.                                                      *)

\* the options the index reaches
Registered == { hashTable.slots[key] : key \in DOMAIN hashTable.slots }

\* a parse is under way or has ended with the registry still alive
Parsing ==
    /\ hashTable.live
    /\ pc \in {"loop", "short", "validate", "parsed", "error"}
    /\ outcome \notin {"noop", "ConfigurationError"}

\* the element at C index k of the vector passed to eloArgParse
Elem(k) == input[k + 1]

StartsWith2(a, c, d) == Len(a) >= 2 /\ a[1] = c /\ a[2] = d

HasEq(a) == \E k \in 1..Len(a) : a[k] = "="

FirstEq(a) == CHOOSE k \in 1..Len(a) : a[k] = "=" /\ \A j \in 1..(k - 1) : a[j] # "="

\* the name a long-form element carries: the text after "--", up to the first '='
NameOf(a) == IF HasEq(a) THEN SubSeq(a, 3, FirstEq(a) - 1) ELSE SubSeq(a, 3, Len(a))

\* the text after the first '='
InlineOf(a) == SubSeq(a, FirstEq(a) + 1, Len(a))

LongForm(a) == StartsWith2(a, "-", "-") /\ a # <<"-", "-">>

ShortForm(a) == Len(a) >= 2 /\ a[1] = "-" /\ a[2] # "-"

KindOf(key) == heap[hashTable.slots[key]].valueType

Known(key) == key \in DOMAIN hashTable.slots

\* the element after C index k exists and does not start with '-'
ValueFollows(k) == k + 2 <= Len(input) /\ (Len(input[k + 2]) = 0 \/ input[k + 2][1] # "-")

\* heap h with option o marked as seen once more
Seen(h, o) == [h EXCEPT ![o] = [@ EXCEPT !.provided = TRUE, !.count = h[o].count + 1]]

---------------------------------------------------------------------------
(* C1 *)

\* C1: for every option registered under a short and a long key, has, get
\* and occurrenceCount give the same results through the short key as
\* through the long key, in every state with a live registry.
C1_Aliasing ==
    hashTable.live =>
        \A o \in DOMAIN heap :
            LET s == heap[o].shortOption
                l == heap[o].longOption
            IN  (s # <<>> /\ l # <<>>) =>
                    /\ eloArgHas(s) = eloArgHas(l)
                    /\ eloArgGet(s) = eloArgGet(l)
                    /\ eloArgCount(s) = eloArgCount(l)

\* a value given through the short spelling -p80 is read through the long key
C1_Witness ==
    /\ pc = "parsed"
    /\ input = <<Prog, TokP8>>
    /\ eloArgHas(KeyPort)
    /\ eloArgGet(KeyPort) = Tok8
    /\ eloArgCount(KeyPort) = 1
    /\ eloArgGet(KeyP) = Tok8

---------------------------------------------------------------------------
(* C2 *)

---------------------------------------------------------------------------
(* C3 *)

\* the four spellings of "option p/port with value 80"
PortForms ==
    { <<Prog, TokPort, Tok8>>, <<Prog, TokPortEq8>>, <<Prog, TokP8>>, <<Prog, TokP, Tok8>> }

\* C3: with an OPTIONAL or REQUIRED option registered under p and port,
\* each of the four spellings of the value 80 parses successfully, and to
\* the same registry: the registry before the parse with that one option
\* holding the value, provided, and seen once (through either key).
C3_SpellingEquivalence ==
    ( /\ hashTable.live
      /\ pc \in {"parsed", "error"}
      /\ input \in PortForms
      /\ Known(KeyP) /\ Known(KeyPort)
      /\ hashTable.slots[KeyP] = hashTable.slots[KeyPort]
      /\ KindOf(KeyP) \in {ARG_OPTIONAL, ARG_REQUIRED} )
    => /\ pc = "parsed"
       /\ outcome = "end"
       /\ \A key \in {KeyP, KeyPort} :
            eloArgGet(key) = Tok8 /\ eloArgHas(key) /\ eloArgCount(key) = 1
       /\ heap = [snap EXCEPT ![hashTable.slots[KeyP]] =
                    [@ EXCEPT !.value = Tok8, !.provided = TRUE, !.count = 1]]

\* the detached short spelling has been parsed
C3_Witness ==
    /\ pc = "parsed"
    /\ input = <<Prog, TokP, Tok8>>
    /\ Known(KeyPort)
    /\ KindOf(KeyPort) = ARG_REQUIRED
    /\ eloArgGet(KeyPort) = Tok8
    /\ eloArgCount(KeyP) = 1

---------------------------------------------------------------------------
(* C4 *)

\* some registered REQUIRED option has no value
RequiredUnset == \E o \in Registered : heap[o].valueType = ARG_REQUIRED /\ heap[o].value = NULLSTR

\* C4: a parse that reaches the end of the vector fails with
\* MissingRequired if and only if some registered REQUIRED option has no
\* value; the vector holding only the program name fails so when a
\* REQUIRED option is registered; after a normal return from the end of
\* the vector get is non-absent for every REQUIRED option.
C4_RequiredValidation ==
    Parsing =>
        /\ (pc = "error" /\ outcome = "MissingRequired") => RequiredUnset
        /\ (pc = "parsed" /\ outcome = "end") =>
              /\ ~RequiredUnset
              /\ \A key \in DOMAIN hashTable.slots :
                    KindOf(key) = ARG_REQUIRED => eloArgGet(key) # NULLSTR
        /\ (pc \in {"parsed", "error"} /\ i >= Len(input)) =>
              outcome \in {"end", "MissingRequired"}
        /\ (pc \in {"parsed", "error"} /\ input = <<Prog>> /\ RequiredUnset) =>
              (pc = "error" /\ outcome = "MissingRequired")

\* the program name alone, a REQUIRED option registered: MissingRequired
C4_Witness ==
    /\ pc = "error"
    /\ outcome = "MissingRequired"
    /\ input = <<Prog>>
    /\ Known(KeyPort)
    /\ KindOf(KeyPort) = ARG_REQUIRED

---------------------------------------------------------------------------
(* C5 *)

\* the element at C index k is a long-form element without '=' that names an INFO option
InfoLongAt(k) ==
    /\ k >= 1 /\ k < Len(input)
    /\ LongForm(Elem(k)) /\ ~HasEq(Elem(k))
    /\ Known(NameOf(Elem(k)))
    /\ KindOf(NameOf(Elem(k))) = ARG_INFO

\* C5: the cursor never moves past a long-form INFO element; once the
\* parser has acted on one, parse has returned successfully with the
\* cursor still on it, that option seen once more and nothing else
\* changed (no later element acted, no MissingRequired check).
C5_InfoLong ==
    Parsing =>
        /\ \A k \in 1..(i - 1) : ~InfoLongAt(k)
        /\ (InfoLongAt(i) /\ pc # "loop") =>
              /\ pc = "parsed"
              /\ outcome = "info"
              /\ heap = Seen(snap, hashTable.slots[NameOf(Elem(i))])

\* --help returned although the REQUIRED port has no value and --port follows
C5_Witness ==
    /\ pc = "parsed"
    /\ outcome = "info"
    /\ input = <<Prog, TokHelp, TokPort>>
    /\ i = 1
    /\ eloArgHas(KeyHelp)
    /\ eloArgCount(KeyH) = 1
    /\ RequiredUnset

---------------------------------------------------------------------------
(* C6 *)

\* C6: the cursor never moves past an element "--"; once the parser has
\* acted on one, parse has returned successfully with the cursor still on
\* it and no option changed (nothing after it is examined, no error is
\* raised for it, the REQUIRED validation does not run).
C6_Terminator ==
    Parsing =>
        /\ \A k \in 1..(i - 1) : k < Len(input) => Elem(k) # <<"-", "-">>
        /\ (i >= 1 /\ i < Len(input) /\ Elem(i) = <<"-", "-">> /\ pc # "loop") =>
              /\ pc = "parsed"
              /\ outcome = "terminator"
              /\ heap = snap

\* "--" returned with the REQUIRED port unset; the -p80 after it was not read
C6_Witness ==
    /\ pc = "parsed"
    /\ outcome = "terminator"
    /\ input = <<Prog, TokEnd, TokP8>>
    /\ i = 1
    /\ Known(KeyP)
    /\ KindOf(KeyP) = ARG_REQUIRED
    /\ ~eloArgHas(KeyP)
    /\ RequiredUnset

---------------------------------------------------------------------------
(* C7 *)

\* the element at C index k is long-form and its name is no key of the index
UnknownLongAt(k) ==
    /\ k >= 1 /\ k < Len(input)
    /\ LongForm(Elem(k))
    /\ ~Known(NameOf(Elem(k)))

\* C7: the cursor never moves past a long-form element whose name is not
\* registered; once the parser has acted on one, error() has been called
\* with UnknownOption and no option differs from what it was when the
\* element was taken up.
C7_UnknownLong ==
    Parsing =>
        /\ \A k \in 1..(i - 1) : ~UnknownLongAt(k)
        /\ (UnknownLongAt(i) /\ pc # "loop") =>
              /\ pc = "error"
              /\ outcome = "UnknownOption"
              /\ heap = snap

\* -a was counted, then --port=80 named no registered option
C7_Witness ==
    /\ pc = "error"
    /\ outcome = "UnknownOption"
    /\ input = <<Prog, TokA, TokPortEq8>>
    /\ i = 2
    /\ eloArgCount(KeyA) = 1
    /\ ~Known(KeyPort)

---------------------------------------------------------------------------
(* C8 *)

\* in the short-form element a, the character iteration the specification
\* describes (each character its own key, stopping at the first option
\* that is not NONE-kind) reaches a character that is no key of the index
ReachesUnknown(a) ==
    \E j \in 2..Len(a) :
        /\ ~Known(<<a[j]>>)
        /\ \A m \in 2..(j - 1) : Known(<<a[m]>>) /\ KindOf(<<a[m]>>) = ARG_NONE

\* C8: every character the iteration of a short-form element reaches is
\* looked up as a short key and an unregistered one fails with
\* UnknownOption: the cursor never moves past a short-form element in
\* which the iteration reaches an unregistered character.
C8_UnknownShort ==
    Parsing =>
        \A k \in 1..(i - 1) :
            k < Len(input) => ~(ShortForm(Elem(k)) /\ ReachesUnknown(Elem(k)))

---------------------------------------------------------------------------
(* C9 *)

\* --name= with nothing after '=', name a value-taking option
EmptyInlineAt(k) ==
    /\ LongForm(Elem(k)) /\ HasEq(Elem(k))
    /\ Known(NameOf(Elem(k)))
    /\ KindOf(NameOf(Elem(k))) \in {ARG_OPTIONAL, ARG_REQUIRED}
    /\ InlineOf(Elem(k)) = <<>>

\* --name, name a value-taking option, no value following
LongNoValueAt(k) ==
    /\ LongForm(Elem(k)) /\ ~HasEq(Elem(k))
    /\ Known(NameOf(Elem(k)))
    /\ KindOf(NameOf(Elem(k))) \in {ARG_OPTIONAL, ARG_REQUIRED}
    /\ ~ValueFollows(k)

\* a short-form element whose last character is a value-taking option
\* (reached through NONE-kind flags), no value following
ShortNoValueAt(k) ==
    LET a == Elem(k) IN
    /\ ShortForm(a)
    /\ \A m \in 2..(Len(a) - 1) : Known(<<a[m]>>) /\ KindOf(<<a[m]>>) = ARG_NONE
    /\ Known(<<a[Len(a)]>>)
    /\ KindOf(<<a[Len(a)]>>) \in {ARG_OPTIONAL, ARG_REQUIRED}
    /\ ~ValueFollows(k)

MissingValueCase(k) ==
    k >= 1 /\ k < Len(input) /\ (EmptyInlineAt(k) \/ LongNoValueAt(k) \/ ShortNoValueAt(k))

\* C9: parse fails with MissingValue exactly in the three cases: the
\* cursor never moves past an element that is one of them, acting on one
\* is the MissingValue error, and a MissingValue error is raised only on one.
C9_MissingValue ==
    Parsing =>
        /\ \A k \in 1..(i - 1) : ~MissingValueCase(k)
        /\ (MissingValueCase(i) /\ pc \notin {"loop", "short"}) =>
              (pc = "error" /\ outcome = "MissingValue")
        /\ (pc = "error" /\ outcome = "MissingValue") => MissingValueCase(i)

---------------------------------------------------------------------------
(* C10 *)

\* the element at C index k is --name=text with name a NONE or INFO option
NoValueEqAt(k) ==
    /\ k >= 1 /\ k < Len(input)
    /\ LongForm(Elem(k)) /\ HasEq(Elem(k))
    /\ Known(NameOf(Elem(k)))
    /\ KindOf(NameOf(Elem(k))) \in {ARG_NONE, ARG_INFO}

\* C10: the cursor never moves past --name=text with name a NONE-kind or
\* INFO-kind option, whatever the text; once the parser has acted on one,
\* error() has been called with UnexpectedValue and the option is neither
\* marked provided nor counted for it (no option has changed).
C10_UnexpectedValue ==
    Parsing =>
        /\ \A k \in 1..(i - 1) : ~NoValueEqAt(k)
        /\ (NoValueEqAt(i) /\ pc # "loop") =>
              /\ pc = "error"
              /\ outcome = "UnexpectedValue"
              /\ heap = snap
              /\ LET o == hashTable.slots[NameOf(Elem(i))]
                 IN  heap[o].provided = snap[o].provided /\ heap[o].count = snap[o].count

\* --help= with the empty text, help an INFO option
C10_Witness ==
    /\ pc = "error"
    /\ outcome = "UnexpectedValue"
    /\ input = <<Prog, TokHelpEq>>
    /\ Known(KeyHelp)
    /\ KindOf(KeyHelp) = ARG_INFO
    /\ ~eloArgHas(KeyHelp)

---------------------------------------------------------------------------
(* C11 *)

\* one of the declaration's keys is a key of the index
KeyTaken(d) ==
    \/ d.shortOption # NULLSTR /\ d.shortOption \in DOMAIN hashTable.slots
    \/ d.longOption # NULLSTR /\ d.longOption \in DOMAIN hashTable.slots

\* every key of the index leads to a block that spells that key
KeysOwned ==
    \A key \in DOMAIN hashTable.slots :
        LET o == hashTable.slots[key]
        IN  o \in DOMAIN heap /\ (heap[o].shortOption = key \/ heap[o].longOption = key)

\* C11: a registration whose short or long key is already a key of the
\* index fails with ConfigurationError and leaves the index as it was; and
\* while the registry lives no key of the index is removed or bound to
\* another option, each key leading to the one option that spells it.
C11_KeyUniqueness ==
    [][ /\ \A n \in DOMAIN AllDecls :
              (eloArgAdd(n) /\ KeyTaken(AllDecls[n]))
                  => /\ pc' = "error"
                     /\ outcome' = "ConfigurationError"
                     /\ hashTable' = hashTable
        /\ (hashTable.live /\ hashTable'.live)
              => \A key \in DOMAIN hashTable.slots :
                     /\ key \in DOMAIN hashTable'.slots
                     /\ hashTable'.slots[key] = hashTable.slots[key]
        /\ KeysOwned'
      ]_vars

\* a registration has just failed on a long key that was already set, the
\* earlier options still being registered
C11_Witness ==
    /\ pc = "error"
    /\ message = "long set"
    /\ hashTable.live
    /\ Cardinality(Registered) >= 2
    /\ KeysOwned

---------------------------------------------------------------------------
(* C12 *)

\* the declaration is one of the five that registration must refuse
Refused(d) ==
    \/ d.shortOption = NULLSTR /\ d.longOption = NULLSTR
    \/ d.description = NULLSTR
    \/ d.shortOption # NULLSTR /\ Len(d.shortOption) > 1
    \/ d.longOption # NULLSTR /\ Len(d.longOption) > 32
    \/ d.description # NULLSTR /\ Len(d.description) > 150

\* C12: a registration with both keys absent, with the description absent,
\* with a short key of more than 1 character, a long key of more than 32 or
\* a description of more than 150 fails with ConfigurationError, adds no
\* key to the index and leaves the registration counter as it was.
C12_RegistrationValidation ==
    [][ \A n \in DOMAIN AllDecls :
            (eloArgAdd(n) /\ Refused(AllDecls[n]))
                => /\ pc' = "error"
                   /\ outcome' = "ConfigurationError"
                   /\ hashTable' = hashTable
                   /\ count' = count
      ]_vars

\* a registration has just been refused for its long key of 33 characters,
\* after another one succeeded
C12_Witness ==
    /\ pc = "error"
    /\ outcome = "ConfigurationError"
    /\ message = "long length"
    /\ count = 1
    /\ Cardinality(DOMAIN hashTable.slots) \in {1, 2}

---------------------------------------------------------------------------
(* C13 *)

\* the key strings the queries are asked with: every key of the
\* declarations and one that no declaration has
QueryKeys == {KeyA, KeyB, KeyC, KeyP, KeyH, KeyV, KeyPort, KeyHelp, <<"z">>}

\* the registered options that spell `key` as their short or long key
Reachable(key) ==
    { o \in Registered : heap[o].shortOption = key \/ heap[o].longOption = key }

\* C13: while the registry lives, for every key string, has is true exactly
\* when one option is reachable by the key and is provided; get is that
\* option's value and occurrenceCount its count in that case, absent and 0
\* otherwise; a key no registered option spells gives false, absent, 0.
C13_QueryResults ==
    hashTable.live =>
        \A key \in QueryKeys :
            /\ Cardinality(Reachable(key)) <= 1
            /\ IF \E o \in Reachable(key) : heap[o].provided
               THEN \E o \in Reachable(key) :
                        /\ eloArgHas(key)
                        /\ eloArgGet(key) = heap[o].value
                        /\ eloArgCount(key) = heap[o].count
               ELSE /\ ~eloArgHas(key)
                    /\ eloArgGet(key) = NULLSTR
                    /\ eloArgCount(key) = 0

\* after a parse of -p80 with p registered under its short key alone: the
\* short key finds the option and its value, the long spelling finds nothing
C13_Witness ==
    /\ hashTable.live
    /\ pc = "parsed"
    /\ input = <<Prog, TokP8>>
    /\ Reachable(KeyP) # {}
    /\ Reachable(KeyPort) = {}
    /\ eloArgHas(KeyP)
    /\ eloArgGet(KeyP) = Tok8
    /\ eloArgCount(KeyP) = 1
    /\ ~eloArgHas(KeyPort)
    /\ eloArgGet(KeyPort) = NULLSTR
    /\ eloArgCount(KeyPort) = 0

---------------------------------------------------------------------------
(* C14 *)

\* the element is a short form made only of registered NONE-kind short keys
FlagsOnly(a) ==
    /\ ShortForm(a)
    /\ \A j \in 2..Len(a) : Known(<<a[j]>>) /\ KindOf(<<a[j]>>) = ARG_NONE

\* how many times the character of `key` stands in the elements after the
\* program name
TimesSeen(key) ==
    Cardinality({ p \in (2..Len(input)) \X (2..3 + MaxArgs) :
                     p[2] <= Len(input[p[1]]) /\ <<input[p[1]][p[2]]>> = key })

\* C14: after a successful parse of a vector whose elements are all short
\* forms made of registered NONE-kind flags (n separate -v, one -v...v, or
\* any mix), every such flag that was seen is provided and its occurrence
\* count is the number of times it was seen; a flag not seen has count 0.
C14_RepeatedFlags ==
    ( /\ Parsing
      /\ pc = "parsed"
      /\ outcome = "end"
      /\ Len(input) >= 2
      /\ \A k \in 2..Len(input) : FlagsOnly(input[k]) )
    => \A key \in {KeyA, KeyB, KeyC} :
           Known(key) =>
               /\ eloArgCount(key) = TimesSeen(key)
               /\ eloArgHas(key) = (TimesSeen(key) > 0)

---------------------------------------------------------------------------
(* C15 *)

\* C15: eloArgFree called before eloArgInit, or called again after an
\* earlier eloArgFree, returns and changes nothing: nothing is deallocated
\* again, and the state after the second call is the state after the first.
C15_IdempotentTeardown ==
    [][ (pc \in {"start", "released"} /\ eloArgFree) => UNCHANGED vars ]_vars

\* options were registered and released, and eloArgFree can be called again
C15_Witness ==
    /\ pc = "released"
    /\ ~hashTable.live
    /\ count >= 2
    /\ ENABLED eloArgFree

---------------------------------------------------------------------------
(* C16 *)

\* C16: when the process has terminated through error(), on a failure of
\* eloArgAdd or of eloArgParse, the index has been destroyed and no
\* EloArgOption block allocated so far is still allocated.
C16_NoLeakOnFailure ==
    pc = "exited" => (~hashTable.live /\ heap = <<>>)

---------------------------------------------------------------------------
(* C17 *)

\* the keys of the index that lead to option o
KeysOf(o) == { key \in DOMAIN hashTable.slots : hashTable.slots[key] = o }

\* C17: while the registry lives, the reference count of every registered
\* option is the number of index keys that lead to it, and is 1 or 2,
\* whatever keys it was registered with (a short key and a long key that
\* are the same one-character string included).
C17_RefCount ==
    hashTable.live =>
        \A o \in Registered :
            /\ heap[o].refCount = Cardinality(KeysOf(o))
            /\ heap[o].refCount \in {1, 2}

---------------------------------------------------------------------------
(* C18 *)

\* C18: when eloArgFree has completed, the index is destroyed and every
\* option that was registered has been deallocated: each block was handed
\* to freeEloArgOption once per index key leading to it and was freed when
\* its reference count reached zero.
C18_TeardownFreesAll ==
    pc = "released" => (~hashTable.live /\ heap = <<>>)

---------------------------------------------------------------------------
(* C19 *)

\* in the short-form element a, the character iteration the specification
\* describes reaches, at position j, a character that is the key of an
\* INFO-kind option
ReachesInfoAt(a, j) ==
    /\ j \in 2..Len(a)
    /\ Known(<<a[j]>>) /\ KindOf(<<a[j]>>) = ARG_INFO
    /\ \A m \in 2..(j - 1) : Known(<<a[m]>>) /\ KindOf(<<a[m]>>) = ARG_NONE

\* C19: the cursor never moves past a short-form element in which the
\* character iteration reaches an INFO-kind option, at whatever position;
\* once the parser is done with such an element, parse has returned
\* successfully with the cursor still on it and that INFO option provided.
C19_InfoShort ==
    Parsing =>
        /\ \A k \in 1..(i - 1) :
               k < Len(input) =>
                   ~(ShortForm(Elem(k)) /\ \E j \in 2..Len(Elem(k)) : ReachesInfoAt(Elem(k), j))
        /\ \A j \in 2..3 + MaxArgs :
               ( /\ i >= 1 /\ i < Len(input)
                 /\ ShortForm(Elem(i))
                 /\ ReachesInfoAt(Elem(i), j)
                 /\ pc \notin {"loop", "short"} )
               => /\ pc = "parsed"
                  /\ outcome = "info"
                  /\ eloArgHas(<<Elem(i)[j]>>)

---------------------------------------------------------------------------
(* C20 *)

\* eloArgParse has been called and the registry has not been released since
ParseCalled ==
    /\ hashTable.live
    /\ pc \in {"loop", "short", "validate", "parsed", "error"}
    /\ outcome # "ConfigurationError"

\* C20: when eloArgParse is called with an empty argument vector or with no
\* option registered, it returns at once without an error, whatever the
\* vector holds: no option and no element of the vector has been changed.
C20_ParseNoop ==
    (ParseCalled /\ (Len(input) = 0 \/ Registered = {}))
        => /\ pc = "parsed"
           /\ outcome = "noop"
           /\ heap = snap
           /\ argv = input
           /\ \A o \in Registered : ~heap[o].provided /\ heap[o].count = 0

\* parse has returned from a vector holding --port=80 and -a, nothing being
\* registered
C20_Witness ==
    /\ pc = "parsed"
    /\ outcome = "noop"
    /\ hashTable.live
    /\ Registered = {}
    /\ input = <<Prog, TokPortEq8, TokA>>
    /\ argv = input

---------------------------------------------------------------------------
(* C21 *)

\* the element does not start with '-'
Bare(a) == Len(a) = 0 \/ a[1] # "-"

\* the element at C index k is a long form without '=' naming an option
\* that takes a value
LongTakerAt(k) ==
    /\ k >= 1 /\ k < Len(input)
    /\ LongForm(Elem(k)) /\ ~HasEq(Elem(k))
    /\ Known(NameOf(Elem(k)))
    /\ KindOf(NameOf(Elem(k))) \in {ARG_OPTIONAL, ARG_REQUIRED}

\* C21: (1) when the outer loop takes up an element that does not start
\* with '-', it moves to the next element and changes no option and raises
\* no error; (2) when a long option takes the next element as its value,
\* that element does not start with '-' and the cursor moves past it; (3)
\* when the short-option loop takes the next element as a value, the loop
\* goes on in the option's own element and the element taken is then
\* passed over without being looked at.
C21_BareAndConsumed ==
    [][ /\ (Parsing /\ pc = "loop" /\ i < Len(input) /\ Bare(Elem(i)))
            => /\ pc' = "loop" /\ i' = i + 1
               /\ heap' = heap /\ outcome' = outcome /\ argv' = argv
        /\ (Parsing /\ pc = "loop" /\ LongTakerAt(i) /\ pc' # "error")
            => /\ pc' = "loop" /\ i' = i + 2
               /\ i + 1 < Len(input) /\ Bare(Elem(i + 1))
               /\ heap'[hashTable.slots[NameOf(Elem(i))]].value = Elem(i + 1)
        /\ (Parsing /\ pc = "short" /\ pc' = "short" /\ i' # i)
            => /\ i' = i + 1 /\ i' < Len(input) /\ Bare(Elem(i'))
               /\ opt'.arg = i
               /\ \E o \in Registered : heap'[o].value = Elem(i') /\ heap[o].count + 1 = heap'[o].count
        /\ (Parsing /\ pc = "short" /\ opt.arg # i)
            => /\ opt.arg = i - 1
               /\ pc' = "loop" /\ i' = i + 1
               /\ heap' = heap /\ outcome' = outcome
      ]_vars

\* --port took 80 as its value and the loop ended without looking at 80
C21_Witness ==
    /\ Parsing
    /\ pc = "validate"
    /\ input = <<Prog, TokPort, Tok8>>
    /\ i = 3
    /\ eloArgGet(KeyPort) = Tok8
    /\ eloArgCount(KeyPort) = 1

---------------------------------------------------------------------------
(* C22 *)

\* eloArgParse is between its first test and its return or error() call
InParse == pc \in {"loop", "short", "validate"}

\* C22: every call of eloArgParse ends, by a return or by error(); each
\* iteration of the outer loop begins with a greater element cursor than
\* the one before, the cursor never going back in between and never
\* passing the end of the vector by more than the loop's last i++, and
\* each iteration of the short-option loop moves opt one character on in
\* the same element.
C22_Termination ==
    /\ [][ /\ (InParse /\ pc' = "loop") => i' > i
           /\ (InParse /\ InParse') => (i' >= i /\ i' <= Len(input))
           /\ (pc = "short" /\ pc' = "short")
                 => (opt'.arg = opt.arg /\ opt'.off = opt.off + 1 /\ opt'.off <= Len(input[opt.arg + 1]))
         ]_vars
    /\ (InParse ~> (pc \in {"parsed", "error"}))

\* a parse of two elements, the first with two flag characters, has
\* returned after the final scan
C22_Witness ==
    /\ pc = "parsed"
    /\ outcome = "end"
    /\ input = <<Prog, TokABC, TokP8>>
    /\ i = Len(input)
    /\ eloArgCount(KeyA) = 3
    /\ eloArgGet(KeyP) = Tok8

---------------------------------------------------------------------------
(* C23 *)

\* no operation has failed: the registry lives and error() was not called
NoFailure ==
    /\ hashTable.live
    /\ pc \in {"setup", "loop", "short", "validate", "parsed"}

\* C23: as long as no operation has failed, for every registered option:
\* provided is true exactly when count is at least 1; an option that holds
\* a value is provided and is of kind OPTIONAL or REQUIRED; and once parse
\* has returned, every provided OPTIONAL or REQUIRED option holds a value.
C23_RecordConsistency ==
    NoFailure =>
        \A o \in Registered :
            /\ heap[o].provided <=> heap[o].count >= 1
            /\ heap[o].value # NULLSTR
                  => (heap[o].provided /\ heap[o].valueType \in {ARG_OPTIONAL, ARG_REQUIRED})
            /\ (pc = "parsed" /\ heap[o].provided /\ heap[o].valueType \in {ARG_OPTIONAL, ARG_REQUIRED})
                  => heap[o].value # NULLSTR

\* parse has returned from -aa -p80: a flag seen twice without a value and
\* an option with its value
C23_Witness ==
    /\ pc = "parsed"
    /\ outcome = "end"
    /\ input = <<Prog, TokAA, TokP8>>
    /\ eloArgCount(KeyA) = 2
    /\ eloArgGet(KeyA) = NULLSTR
    /\ eloArgCount(KeyPort) = 1
    /\ eloArgGet(KeyPort) = Tok8

---------------------------------------------------------------------------
(* C24 *)

\* the key leads to option o
LeadsTo(key, o) == Known(key) /\ hashTable.slots[key] = o

\* the values the elements from C index k on give to option o, in order,
\* in the four spellings (--name=V, --name V, -cV, -c V); an element that
\* is none of these for o stands as NULLSTR
RECURSIVE ValuesFrom(_, _)
ValuesFrom(o, k) ==
    IF k >= Len(input) THEN <<>>
    ELSE LET a == Elem(k) IN
         IF LongForm(a) /\ HasEq(a) /\ LeadsTo(NameOf(a), o) /\ Len(InlineOf(a)) > 0
         THEN <<InlineOf(a)>> \o ValuesFrom(o, k + 1)
         ELSE IF LongForm(a) /\ ~HasEq(a) /\ LeadsTo(NameOf(a), o) /\ ValueFollows(k)
         THEN <<Elem(k + 1)>> \o ValuesFrom(o, k + 2)
         ELSE IF ShortForm(a) /\ LeadsTo(<<a[2]>>, o) /\ Len(a) > 2
         THEN <<SubSeq(a, 3, Len(a))>> \o ValuesFrom(o, k + 1)
         ELSE IF ShortForm(a) /\ LeadsTo(<<a[2]>>, o) /\ Len(a) = 2 /\ ValueFollows(k)
         THEN <<Elem(k + 1)>> \o ValuesFrom(o, k + 2)
         ELSE <<NULLSTR>> \o ValuesFrom(o, k + 1)

\* C24: after a successful parse of a vector that gives an OPTIONAL or
\* REQUIRED option two or more values, in any mix of the four spellings,
\* get returns the last of the values and occurrenceCount their number.
C24_LastValueWins ==
    (hashTable.live /\ pc = "parsed" /\ outcome = "end") =>
        \A o \in Registered :
            LET vals == ValuesFrom(o, 1) IN
            ( /\ heap[o].valueType \in {ARG_OPTIONAL, ARG_REQUIRED}
              /\ Len(vals) >= 2
              /\ \A n \in 1..Len(vals) : vals[n] # NULLSTR )
            => \A key \in {KeyP, KeyPort} :
                   LeadsTo(key, o) =>
                       /\ eloArgGet(key) = vals[Len(vals)]
                       /\ eloArgCount(key) = Len(vals)

\* -p 9, -p80 and --port=-8 have been parsed: three values, the last one held
C24_Witness ==
    /\ pc = "parsed"
    /\ outcome = "end"
    /\ input = <<Prog, TokP, Tok9, TokP8, TokPortEqM8>>
    /\ Known(KeyPort)
    /\ LeadsTo(KeyP, hashTable.slots[KeyPort])
    /\ eloArgGet(KeyP) = <<"-", "8">>
    /\ eloArgCount(KeyPort) = 3

---------------------------------------------------------------------------
(* C25 *)

\* how many times the character c stands in the short-form element a
TimesIn(a, c) == Cardinality({ j \in 2..Len(a) : a[j] = c })

\* the registered option whose long spelling is the string `key`, if any
LongSpelled(key) == { o \in Registered : heap[o].longOption = key }

\* the registered option whose short spelling is the string `key`, if any
ShortSpelled(key) == { o \in Registered : heap[o].shortOption = key }

\* C25: keys are resolved by their string alone.  Once the loop is done
\* with an element: a long-form flag element --k has marked the option
\* whose short key is k; a long-form element --k=V has given V to the
\* option whose short key is k; and in a short-form element made of flags,
\* every character that is the long spelling of an option has marked that
\* option once per occurrence.  No string is a key of two options.
C25_SharedNamespace ==
    /\ (hashTable.live /\ pc \in {"setup", "loop", "short", "validate", "parsed"})
          => \A o1, o2 \in Registered :
                 (o1 # o2) =>
                     ({heap[o1].shortOption, heap[o1].longOption}
                         \cap {heap[o2].shortOption, heap[o2].longOption}) \subseteq {<<>>}
    /\ (Parsing /\ pc = "loop" /\ i >= 2 /\ i <= Len(input))
          => LET a == Elem(i - 1) IN
             /\ (LongForm(a) /\ ~HasEq(a))
                   => \A o \in ShortSpelled(NameOf(a)) :
                          heap[o].valueType = ARG_NONE
                              => heap[o].provided /\ heap[o].count = snap[o].count + 1
             /\ (LongForm(a) /\ HasEq(a))
                   => \A o \in ShortSpelled(NameOf(a)) :
                          heap[o].valueType \in {ARG_OPTIONAL, ARG_REQUIRED}
                              => heap[o].value = InlineOf(a) /\ heap[o].count = snap[o].count + 1
             /\ (ShortForm(a) /\ FlagsOnly(a))
                   => \A j \in 2..Len(a) :
                          \A o \in LongSpelled(<<a[j]>>) :
                              heap[o].provided /\ heap[o].count = snap[o].count + TimesIn(a, a[j])

=============================================================================
